---- MODULE Spec2Model ----
(***************************************************************************)
(* Leaf page of a disk-resident B+Tree (src/src/btree/leaf.rs).            *)
(*                                                                         *)
(* A Leaf is a view over one page buffer: a Header of two page identifiers *)
(* (prev_page_id, next_page_id) followed by a Slotted body that holds the  *)
(* encoded pairs.  leaf.rs is the only file of the crate at hand; Slotted,  *)
(* Pair, PageId, binary_search_by and max_pair_size live in files that are *)
(* not, and are modelled from their interface contracts.                   *)
(*                                                                         *)
(* Leaf::insert as written names its parameter `kye`, builds the pair from *)
(* `key`, and ends with the copy instead of Some(()).  The model reads the *)
(* parameter as the key and the fall-through end as the success result.    *)
(***************************************************************************)
EXTENDS Integers, Sequences, FiniteSets, TLC

\* ------------------------------------------------------------------ bounds
\* Size of the page buffer, in bytes.
PageSize == 24
\* Page identifiers are 0..MaxPageId; the sentinel is the next value.
MaxPageId == 1

\* ------------------------------------------------- collaborators' constants
\* Bytes of one encoded page identifier.
PageIdSize == 2
\* Bytes of the slotted page's own header.
SlottedHeaderSize == 2
\* Bytes of one slot-directory entry.
PointerSize == 2
\* PageId::INVALID_PAGE_ID: the reserved "no page" pattern (the largest one).
INVALID_PAGE_ID == MaxPageId + 1

\* size_of::<Header>(): two page identifiers.
HeaderSize == 2 * PageIdSize
\* align_of::<PageId>()
PageIdAlign == 2
\* align_of::<Header>(): that of its fields.
HeaderAlign == PageIdAlign

RawPageIds == 0..INVALID_PAGE_ID
\* Option<PageId>: None is <<>>, Some(x) is <<x>>.
None == <<>>
Some(x) == <<x>>
OptPageIds == {None} \cup {Some(x) : x \in RawPageIds}

\* ------------------------------------------------------------------ inputs
Keys == {<<>>, <<1>>, <<2>>, <<3>>, <<1, 2>>}
Values == {<<7>>, <<8, 8, 8, 8, 8>>}
\* Lengths of the buffer handed to Leaf::new: short of the header by one
\* byte, the header alone, a whole page.
BufLens == {HeaderSize - 1, HeaderSize, PageSize}
\* Where the buffer starts, as an offset from an address aligned for Header.
BufAddrs == 0..(HeaderAlign - 1)
\* What an unformatted buffer may hold in its body.
RawSlots == {<<>>, << <<9>> >>, << <<1, 2, 1, 7>>, <<1, 2, 1, 7>> >>}

VARIABLES buflen, bufaddr, phase, page, last, usage, stored

vars == <<buflen, bufaddr, phase, page, last, usage, stored>>

\* ------------------------------------------------------------ PageId codec
\* PageId::valid: the sentinel decodes to None, anything else to Some.
PageId_valid(raw) == IF raw = INVALID_PAGE_ID THEN None ELSE Some(raw)

\* From<Option<PageId>> for PageId: None encodes to the sentinel.
PageId_from(opt) == IF opt = None THEN INVALID_PAGE_ID ELSE opt[1]

\* ------------------------------------------------------------- Pair codec
\* Pair::to_bytes: each field preceded by its length.
to_bytes(key, value) == <<Len(key)>> \o key \o <<Len(value)>> \o value

\* Pair::from_bytes: reads the lengths back.
from_bytes(bytes) ==
    LET klen == bytes[1]
        vlen == bytes[2 + klen]
    IN  [key |-> SubSeq(bytes, 2, 1 + klen),
         value |-> SubSeq(bytes, 3 + klen, 2 + klen + vlen)]

\* ---------------------------------------------------------------- Slotted
RECURSIVE SumLen(_)
SumLen(slots) ==
    IF slots = <<>> THEN 0 ELSE Len(Head(slots)) + SumLen(Tail(slots))

\* Slotted::new: the region less the slotted header is the capacity (below
\* zero for a region that cannot hold that header: nothing fits in it).
Slotted_new(bodylen) == [cap |-> bodylen - SlottedHeaderSize]

Slotted_capacity(body) == body.cap

Slotted_num_slots(body) == Len(body.slots)

Slotted_free_space(body) ==
    body.cap - SumLen(body.slots) - PointerSize * Len(body.slots)

Slotted_initialize(body) == [body EXCEPT !.slots = <<>>]

Zeros(n) == [i \in 1..n |-> 0]

\* Slotted::insert(index, len): None when the record and its directory entry
\* do not fit; otherwise a new slot of len bytes at index, later slots moved up.
Slotted_insert(body, index, len) ==
    IF Slotted_free_space(body) < PointerSize + len
    THEN [body |-> body, res |-> "None"]
    ELSE [body |-> [body EXCEPT !.slots =
                        SubSeq(body.slots, 1, index) \o <<Zeros(len)>>
                        \o SubSeq(body.slots, index + 1, Len(body.slots))],
          res |-> "Some"]

\* ------------------------------------------------------------------- Leaf
\* LayoutVerified::new_from_prefix for Header: None when the buffer is not
\* aligned for Header or is shorter than it.
header_from_prefix(addr, len) ==
    IF addr % HeaderAlign # 0 \/ len < HeaderSize
    THEN "None"
    ELSE "Some"

\* Leaf::new that formats the page it is given.
Leaf_new_formats(buf, addr, len) ==
    IF header_from_prefix(addr, len) = "None"
    THEN [leaf |-> buf, res |-> "panic"]
    ELSE [leaf |-> [prev |-> INVALID_PAGE_ID, next |-> INVALID_PAGE_ID,
                    body |-> [cap |-> Slotted_new(len - HeaderSize).cap,
                              slots |-> <<>>]],
          res |-> "unit"]

\* Leaf::new that takes the header whatever the length of the buffer.
Leaf_new_unchecked_len(buf, addr, len) ==
    IF addr % HeaderAlign # 0
    THEN [leaf |-> buf, res |-> "panic"]
    ELSE [leaf |-> [prev |-> buf.prev, next |-> buf.next,
                    body |-> [cap |-> Slotted_new(len - HeaderSize).cap,
                              slots |-> buf.body.slots]],
          res |-> "unit"]

\* Leaf::new: the first HeaderSize bytes are the header, the rest the body;
\* a buffer new_from_prefix refuses is fatal (expect).
Leaf_new(buf, addr, len) ==
    IF header_from_prefix(addr, len) = "None"
    THEN [leaf |-> buf, res |-> "panic"]
    ELSE [leaf |-> [prev |-> buf.prev, next |-> buf.next,
                    body |-> [cap |-> Slotted_new(len - HeaderSize).cap,
                              slots |-> buf.body.slots]],
          res |-> "unit"]

prev_page_id(leaf) == PageId_valid(leaf.prev)

next_page_id(leaf) == PageId_valid(leaf.next)

num_pairs(leaf) == Slotted_num_slots(leaf.body)

\* Leaf::max_pair_size
max_pair_size(leaf) == (Slotted_capacity(leaf.body) \div 2) - PointerSize

\* ----------------------------------------------------------------- search
Min(a, b) == IF a < b THEN a ELSE b

\* <[u8] as Ord>::cmp: byte-lexicographic, a proper prefix is smaller.
cmp(a, b) ==
    LET n == Min(Len(a), Len(b))
        diff == {i \in 1..n : a[i] # b[i]}
    IN  IF diff = {}
        THEN IF Len(a) < Len(b) THEN "Less"
             ELSE IF Len(a) > Len(b) THEN "Greater" ELSE "Equal"
        ELSE LET i == CHOOSE j \in diff : \A k \in diff : j <= k
             IN  IF a[i] < b[i] THEN "Less" ELSE "Greater"

\* binary_search_by(size, f): f is given as the function slot -> Ordering.
RECURSIVE bsearch_loop(_, _, _, _)
bsearch_loop(left, right, size, f) ==
    IF left < right
    THEN LET mid == left + (size \div 2)
         IN  IF f[mid] = "Less"
             THEN bsearch_loop(mid + 1, right, right - (mid + 1), f)
             ELSE IF f[mid] = "Greater"
             THEN bsearch_loop(left, mid, mid - left, f)
             ELSE [tag |-> "Ok", idx |-> mid]
    ELSE [tag |-> "Err", idx |-> left]

binary_search_by(size, f) == bsearch_loop(0, size, size, f)

\* pair_at that clamps the index to the last slot instead of failing.
pair_at_clamped(leaf, slot_id) ==
    IF Slotted_num_slots(leaf.body) = 0
    THEN [tag |-> "panic"]
    ELSE LET i == Min(slot_id, Slotted_num_slots(leaf.body) - 1)
             p == from_bytes(leaf.body.slots[i + 1])
         IN  [tag |-> "pair", key |-> p.key, value |-> p.value]

\* Leaf::pair_at: decodes the bytes of the slot; indexing past the last slot
\* is fatal.
pair_at(leaf, slot_id) ==
    IF slot_id >= Slotted_num_slots(leaf.body)
    THEN [tag |-> "panic"]
    ELSE LET p == from_bytes(leaf.body.slots[slot_id + 1])
         IN  [tag |-> "pair", key |-> p.key, value |-> p.value]

\* search_slot_id whose comparator compares the probe to the slot's key.
search_slot_id_swapped_cmp(leaf, key) ==
    binary_search_by(num_pairs(leaf),
        [slot_id \in 0..(num_pairs(leaf) - 1) |->
            cmp(key, pair_at(leaf, slot_id).key)])

\* search_slot_id whose comparator reports an equal key as greater.
search_slot_id_no_equal(leaf, key) ==
    binary_search_by(num_pairs(leaf),
        [slot_id \in 0..(num_pairs(leaf) - 1) |->
            IF cmp(pair_at(leaf, slot_id).key, key) = "Less"
            THEN "Less" ELSE "Greater"])

\* Leaf::search_slot_id
search_slot_id(leaf, key) ==
    binary_search_by(num_pairs(leaf),
        [slot_id \in 0..(num_pairs(leaf) - 1) |->
            cmp(pair_at(leaf, slot_id).key, key)])

\* -------------------------------------------------------------- mutations
\* initialize that resets the links and leaves the body as it is.
initialize_keep_body(leaf) ==
    [leaf EXCEPT !.prev = INVALID_PAGE_ID, !.next = INVALID_PAGE_ID]

\* Leaf::initialize
initialize(leaf) ==
    [leaf EXCEPT !.prev = INVALID_PAGE_ID,
                 !.next = INVALID_PAGE_ID,
                 !.body = Slotted_initialize(leaf.body)]

\* set_prev_page_id that writes the other link.
set_prev_page_id_writes_next(leaf, opt) ==
    [leaf EXCEPT !.next = PageId_from(opt)]

\* Leaf::set_prev_page_id
set_prev_page_id(leaf, opt) == [leaf EXCEPT !.prev = PageId_from(opt)]

\* st_next_page_id that writes both links.
st_next_page_id_writes_both(leaf, opt) ==
    [leaf EXCEPT !.prev = PageId_from(opt), !.next = PageId_from(opt)]

\* Leaf::st_next_page_id
st_next_page_id(leaf, opt) == [leaf EXCEPT !.next = PageId_from(opt)]

\* slice::copy_from_slice into the slot: the lengths must agree.
copy_into_slot(leaf, slot_id, bytes) ==
    IF Len(leaf.body.slots[slot_id + 1]) # Len(bytes)
    THEN [leaf |-> leaf, res |-> "panic"]
    ELSE [leaf |-> [leaf EXCEPT !.body.slots[slot_id + 1] = bytes],
          res |-> "Some"]

\* insert that reserves the new slot after the last one.
insert_at_end(leaf, slot_id, key, value) ==
    LET pair_bytes == to_bytes(key, value)
        end == num_pairs(leaf)
    IN  IF ~(Len(pair_bytes) <= max_pair_size(leaf))
        THEN [leaf |-> leaf, res |-> "panic"]
        ELSE LET r == Slotted_insert(leaf.body, end, Len(pair_bytes))
                 reserved == [leaf EXCEPT !.body = r.body]
             IN  IF r.res = "None"
                 THEN [leaf |-> reserved, res |-> "None"]
                 ELSE copy_into_slot(reserved, end, pair_bytes)

\* insert that builds the pair with its two fields exchanged.
insert_swapped(leaf, slot_id, key, value) ==
    LET pair_bytes == to_bytes(value, key)
    IN  IF ~(Len(pair_bytes) <= max_pair_size(leaf))
        THEN [leaf |-> leaf, res |-> "panic"]
        ELSE LET r == Slotted_insert(leaf.body, slot_id, Len(pair_bytes))
                 reserved == [leaf EXCEPT !.body = r.body]
             IN  IF r.res = "None"
                 THEN [leaf |-> reserved, res |-> "None"]
                 ELSE copy_into_slot(reserved, slot_id, pair_bytes)

\* insert that copies the bytes into the slot before it reserves it.
insert_write_first(leaf, slot_id, key, value) ==
    LET pair_bytes == to_bytes(key, value)
        written ==
            IF /\ slot_id < num_pairs(leaf)
               /\ Len(leaf.body.slots[slot_id + 1]) = Len(pair_bytes)
            THEN [leaf EXCEPT !.body.slots[slot_id + 1] = pair_bytes]
            ELSE leaf
    IN  IF ~(Len(pair_bytes) <= max_pair_size(leaf))
        THEN [leaf |-> leaf, res |-> "panic"]
        ELSE LET r == Slotted_insert(written.body, slot_id, Len(pair_bytes))
                 reserved == [written EXCEPT !.body = r.body]
             IN  IF r.res = "None"
                 THEN [leaf |-> reserved, res |-> "None"]
                 ELSE copy_into_slot(reserved, slot_id, pair_bytes)

\* insert that reserves room for the key alone.
insert_reserve_key_len(leaf, slot_id, key, value) ==
    LET pair_bytes == to_bytes(key, value)
    IN  IF ~(Len(pair_bytes) <= max_pair_size(leaf))
        THEN [leaf |-> leaf, res |-> "panic"]
        ELSE LET r == Slotted_insert(leaf.body, slot_id, Len(key))
                 reserved == [leaf EXCEPT !.body = r.body]
             IN  IF r.res = "None"
                 THEN [leaf |-> reserved, res |-> "None"]
                 ELSE copy_into_slot(reserved, slot_id, pair_bytes)

\* insert that checks the size after the slot is reserved.
insert_assert_after_reserve(leaf, slot_id, key, value) ==
    LET pair_bytes == to_bytes(key, value)
        r == Slotted_insert(leaf.body, slot_id, Len(pair_bytes))
        reserved == [leaf EXCEPT !.body = r.body]
    IN  IF r.res = "None"
        THEN [leaf |-> reserved, res |-> "None"]
        ELSE IF ~(Len(pair_bytes) <= max_pair_size(leaf))
        THEN [leaf |-> reserved, res |-> "panic"]
        ELSE copy_into_slot(reserved, slot_id, pair_bytes)

\* insert that reserves the new slot in front of all the others.
insert_reserve_front(leaf, slot_id, key, value) ==
    LET pair_bytes == to_bytes(key, value)
    IN  IF ~(Len(pair_bytes) <= max_pair_size(leaf))
        THEN [leaf |-> leaf, res |-> "panic"]
        ELSE LET r == Slotted_insert(leaf.body, 0, Len(pair_bytes))
                 reserved == [leaf EXCEPT !.body = r.body]
             IN  IF r.res = "None"
                 THEN [leaf |-> reserved, res |-> "None"]
                 ELSE copy_into_slot(reserved, slot_id, pair_bytes)

\* insert whose size check refuses a pair of exactly the maximum size.
insert_assert_strict(leaf, slot_id, key, value) ==
    LET pair_bytes == to_bytes(key, value)
    IN  IF ~(Len(pair_bytes) < max_pair_size(leaf))
        THEN [leaf |-> leaf, res |-> "panic"]
        ELSE LET r == Slotted_insert(leaf.body, slot_id, Len(pair_bytes))
                 reserved == [leaf EXCEPT !.body = r.body]
             IN  IF r.res = "None"
                 THEN [leaf |-> reserved, res |-> "None"]
                 ELSE copy_into_slot(reserved, slot_id, pair_bytes)

\* Leaf::insert: encode, assert the size, reserve the slot (None when the
\* body has no room), copy the bytes in.
insert(leaf, slot_id, key, value) ==
    LET pair_bytes == to_bytes(key, value)
    IN  IF ~(Len(pair_bytes) <= max_pair_size(leaf))
        THEN [leaf |-> leaf, res |-> "panic"]
        ELSE LET r == Slotted_insert(leaf.body, slot_id, Len(pair_bytes))
                 reserved == [leaf EXCEPT !.body = r.body]
             IN  IF r.res = "None"
                 THEN [leaf |-> reserved, res |-> "None"]
                 ELSE copy_into_slot(reserved, slot_id, pair_bytes)

\* ------------------------------------------------------------ bookkeeping
\* `last` records the operation that was called last, its arguments and its
\* result, and what the getters reported just before it.  `stored` is the
\* list of pairs the caller has put into the leaf since initialize, each at
\* the position it was inserted at.
NoArg == [slot |-> 0, key |-> <<>>, value |-> <<>>, pid |-> None]
NoRet == [idx |-> 0, key |-> <<>>, value |-> <<>>, pid |-> None]

Observed(leaf) ==
    [n |-> num_pairs(leaf), prev |-> prev_page_id(leaf),
     next |-> next_page_id(leaf)]

Call(op, arg, tag, ret, pre) ==
    [op |-> op, arg |-> arg, res |-> tag, ret |-> ret, pre |-> pre]

alive == last.res # "panic"

TypeOK ==
    /\ buflen \in BufLens
    /\ bufaddr \in BufAddrs
    /\ phase \in {"buffer", "raw", "leaf"}
    /\ usage \in {"insertion_point", "search_index", "any_slot"}
    /\ page.prev \in RawPageIds
    /\ page.next \in RawPageIds

\* ---------------------------------------------------------------- actions
Init ==
    /\ buflen \in BufLens
    /\ bufaddr \in BufAddrs
    /\ phase = "buffer"
    /\ \E p \in RawPageIds, n \in RawPageIds, s \in RawSlots :
          page = [prev |-> p, next |-> n, body |-> [slots |-> s]]
    /\ last = Call("alloc", NoArg, "unit", NoRet, [n |-> 0, prev |-> None, next |-> None])
    /\ usage = "insertion_point"
    /\ stored = <<>>

\* A view is made of the buffer: the first one, or another one later on.
New ==
    /\ alive
    /\ LET r == Leaf_new(page, bufaddr, buflen)
       IN  /\ page' = r.leaf
           /\ phase' = IF r.res # "panic" /\ phase = "buffer" THEN "raw" ELSE phase
           /\ last' = Call("new", NoArg, r.res, NoRet, Observed(page))
    /\ UNCHANGED <<buflen, bufaddr, usage, stored>>

Initialize ==
    /\ alive
    /\ phase \in {"raw", "leaf"}
    /\ page' = initialize(page)
    /\ phase' = "leaf"
    /\ usage' = "insertion_point"
    /\ stored' = <<>>
    /\ last' = Call("initialize", NoArg, "unit", NoRet, Observed(page))
    /\ UNCHANGED <<buflen, bufaddr>>

SetPrevPageId ==
    /\ alive
    /\ phase = "leaf"
    /\ \E opt \in OptPageIds :
          /\ page' = set_prev_page_id(page, opt)
          /\ last' = Call("set_prev_page_id", [NoArg EXCEPT !.pid = opt],
                          "unit", NoRet, Observed(page))
    /\ UNCHANGED <<buflen, bufaddr, phase, usage, stored>>

SetNextPageId ==
    /\ alive
    /\ phase = "leaf"
    /\ \E opt \in OptPageIds :
          /\ page' = st_next_page_id(page, opt)
          /\ last' = Call("st_next_page_id", [NoArg EXCEPT !.pid = opt],
                          "unit", NoRet, Observed(page))
    /\ UNCHANGED <<buflen, bufaddr, phase, usage, stored>>

PrevPageId ==
    /\ alive
    /\ phase = "leaf"
    /\ last' = Call("prev_page_id", NoArg, "opt",
                    [NoRet EXCEPT !.pid = prev_page_id(page)], Observed(page))
    /\ UNCHANGED <<buflen, bufaddr, phase, page, usage, stored>>

NextPageId ==
    /\ alive
    /\ phase = "leaf"
    /\ last' = Call("next_page_id", NoArg, "opt",
                    [NoRet EXCEPT !.pid = next_page_id(page)], Observed(page))
    /\ UNCHANGED <<buflen, bufaddr, phase, page, usage, stored>>

NumPairs ==
    /\ alive
    /\ phase = "leaf"
    /\ last' = Call("num_pairs", NoArg, "count",
                    [NoRet EXCEPT !.idx = num_pairs(page)], Observed(page))
    /\ UNCHANGED <<buflen, bufaddr, phase, page, usage, stored>>

SearchSlotId ==
    /\ alive
    /\ phase = "leaf"
    /\ \E key \in Keys :
          LET r == search_slot_id(page, key)
          IN  last' = Call("search_slot_id", [NoArg EXCEPT !.key = key],
                           r.tag, [NoRet EXCEPT !.idx = r.idx], Observed(page))
    /\ UNCHANGED <<buflen, bufaddr, phase, page, usage, stored>>

\* A pair_at that takes the pair out of the leaf as it reads it.
PairAt_takes ==
    /\ alive
    /\ phase = "leaf"
    /\ \E slot_id \in 0..(num_pairs(page) + 1) :
          LET r == pair_at(page, slot_id)
          IN  /\ last' = Call("pair_at", [NoArg EXCEPT !.slot = slot_id], r.tag,
                              IF r.tag = "pair"
                              THEN [NoRet EXCEPT !.key = r.key, !.value = r.value]
                              ELSE NoRet,
                              Observed(page))
              /\ page' = IF r.tag = "pair"
                         THEN [page EXCEPT !.body.slots =
                                  SubSeq(page.body.slots, 1, slot_id)
                                  \o SubSeq(page.body.slots, slot_id + 2,
                                            Len(page.body.slots))]
                         ELSE page
    /\ UNCHANGED <<buflen, bufaddr, phase, usage, stored>>

PairAt ==
    /\ alive
    /\ phase = "leaf"
    /\ \E slot_id \in 0..(num_pairs(page) + 1) :
          LET r == pair_at(page, slot_id)
          IN  last' = Call("pair_at", [NoArg EXCEPT !.slot = slot_id], r.tag,
                           IF r.tag = "pair"
                           THEN [NoRet EXCEPT !.key = r.key, !.value = r.value]
                           ELSE NoRet,
                           Observed(page))
    /\ UNCHANGED <<buflen, bufaddr, phase, page, usage, stored>>

\* How the caller chose the slot of an insert, given what search_slot_id says
\* of the key on the current leaf: at the insertion point Err(i), at the index
\* of a present key Ok(i), or somewhere else.
SlotChoice(leaf, slot_id, key) ==
    LET s == search_slot_id(leaf, key)
    IN  IF s.idx # slot_id THEN "any_slot"
        ELSE IF s.tag = "Err" THEN "insertion_point" ELSE "search_index"

\* `usage` is the weakest choice made by any insert since initialize.
Weakest(a, b) ==
    IF "any_slot" \in {a, b} THEN "any_slot"
    ELSE IF "search_index" \in {a, b} THEN "search_index"
    ELSE "insertion_point"

InsertAt(slot_id, key, value) ==
    LET r == insert(page, slot_id, key, value)
    IN  /\ page' = r.leaf
        /\ usage' = Weakest(usage, SlotChoice(page, slot_id, key))
        /\ stored' = IF r.res = "Some"
                     THEN SubSeq(stored, 1, slot_id)
                          \o <<[key |-> key, value |-> value]>>
                          \o SubSeq(stored, slot_id + 1, Len(stored))
                     ELSE stored
        /\ last' = Call("insert",
                        [NoArg EXCEPT !.slot = slot_id, !.key = key,
                                      !.value = value],
                        r.res, NoRet, Observed(page))
        /\ UNCHANGED <<buflen, bufaddr, phase>>

\* The caller looks the key up and inserts at the index the search carries:
\* the insertion point Err(i) when the key is absent, or (a caller that does
\* not tell the two apart) the index of Ok(i) when it is present.
Insert ==
    /\ alive
    /\ phase = "leaf"
    /\ \E key \in Keys, value \in Values :
          InsertAt(search_slot_id(page, key).idx, key, value)

Next ==
    \/ New
    \/ Initialize
    \/ SetPrevPageId
    \/ SetNextPageId
    \/ PrevPageId
    \/ NextPageId
    \/ NumPairs
    \/ SearchSlotId
    \/ PairAt
    \/ Insert

Spec == Init /\ [][Next]_vars

\* A caller that inserts at any slot from 0 to num_pairs(), whatever the
\* keys in the leaf.
InsertAnySlot ==
    /\ alive
    /\ phase = "leaf"
    /\ \E slot_id \in 0..num_pairs(page), key \in Keys, value \in Values :
          InsertAt(slot_id, key, value)

NextAnySlot ==
    \/ New
    \/ Initialize
    \/ SetPrevPageId
    \/ SetNextPageId
    \/ InsertAnySlot

SpecAnySlot == Init /\ [][NextAnySlot]_vars

\* ----------------------------------------------------------- claim terms
\* Byte-lexicographic strict order, stated directly.
LexLess(a, b) ==
    \/ /\ Len(a) < Len(b)
       /\ \A i \in 1..Len(a) : a[i] = b[i]
    \/ \E i \in 1..Min(Len(a), Len(b)) :
          /\ a[i] < b[i]
          /\ \A j \in 1..(i - 1) : a[j] = b[j]

Slots(leaf) == 0..(num_pairs(leaf) - 1)

KeyAt(leaf, i) == pair_at(leaf, i).key

StrictlySorted(leaf) ==
    \A i, j \in Slots(leaf) : i < j => LexLess(KeyAt(leaf, i), KeyAt(leaf, j))

DistinctKeys(leaf) ==
    \A i, j \in Slots(leaf) : i # j => KeyAt(leaf, i) # KeyAt(leaf, j)

\* The result of looking every slot over, one after the other.
LinearScan(leaf, key) ==
    IF \E i \in Slots(leaf) : KeyAt(leaf, i) = key
    THEN [tag |-> "Ok", idx |-> CHOOSE i \in Slots(leaf) : KeyAt(leaf, i) = key]
    ELSE [tag |-> "Err",
          idx |-> Cardinality({i \in Slots(leaf) : LexLess(KeyAt(leaf, i), key)})]

KeysOf(leaf) == [i \in 1..num_pairs(leaf) |-> KeyAt(leaf, i - 1)]

PairOf(key, value) == [tag |-> "pair", key |-> key, value |-> value]

\* What a caller can see of the leaf is the same in both.
SameLeaf(a, b) ==
    /\ num_pairs(a) = num_pairs(b)
    /\ \A i \in Slots(a) : pair_at(a, i) = pair_at(b, i)
    /\ prev_page_id(a) = prev_page_id(b)
    /\ next_page_id(a) = next_page_id(b)

Initialized == phase = "leaf"

ValidInserts == Initialized /\ usage = "insertion_point"

\* ----------------------------------------------------------------- claims
\* C1: after any sequence of inserts made at the insertion point Err(i) of
\* search_slot_id, whether they succeeded or failed, the keys of the leaf are
\* in strictly ascending byte-lexicographic order.
C1_Sortedness == ValidInserts => StrictlySorted(page)

\* A third pair went in between two others.
C1_Witness ==
    /\ ValidInserts
    /\ last.op = "insert" /\ last.res = "Some"
    /\ last.pre.n = 2 /\ last.arg.slot = 1
    /\ num_pairs(page) = 3

\* C2: after a successful insert at the insertion point, search_slot_id of
\* the key is Ok(s) and pair_at(s) is the key and the value that were given.
C2_RoundTrip ==
    (ValidInserts /\ last.op = "insert" /\ last.res = "Some") =>
        LET r == search_slot_id(page, last.arg.key)
        IN  /\ r.tag = "Ok"
            /\ pair_at(page, r.idx) = PairOf(last.arg.key, last.arg.value)

\* The long value went in before a pair that was there already.
C2_Witness ==
    /\ ValidInserts
    /\ last.op = "insert" /\ last.res = "Some"
    /\ Len(last.arg.value) > 1
    /\ last.arg.slot = 0 /\ last.pre.n = 1

\* C3: on a strictly sorted leaf, the empty one included, search_slot_id
\* agrees with a linear scan for every key: Ok(i) where the key is, Err(p)
\* with p the number of smaller keys where it is not; with the keys a, b, c
\* in the leaf, "b" is Ok(1) and "ab" is Err(1).
C3_SearchCorrect ==
    (Initialized /\ StrictlySorted(page)) =>
        /\ \A key \in Keys : search_slot_id(page, key) = LinearScan(page, key)
        /\ last.op = "search_slot_id" =>
              /\ [tag |-> last.res, idx |-> last.ret.idx]
                     = LinearScan(page, last.arg.key)
              /\ last.ret.idx \in 0..num_pairs(page)
        /\ KeysOf(page) = << <<1>>, <<2>>, <<3>> >> =>
              /\ search_slot_id(page, <<2>>) = [tag |-> "Ok", idx |-> 1]
              /\ search_slot_id(page, <<1, 2>>) = [tag |-> "Err", idx |-> 1]

\* "ab" was looked up in the leaf a, b, c.
C3_Witness ==
    /\ Initialized
    /\ KeysOf(page) = << <<1>>, <<2>>, <<3>> >>
    /\ last.op = "search_slot_id" /\ last.arg.key = <<1, 2>>
    /\ last.res = "Err" /\ last.ret.idx = 1

\* C4: an insert that returns the failure result leaves the slot count, every
\* pair and both links as they were.
C4_NoPartialWrite ==
    [][(last'.op = "insert" /\ last'.res = "None") => SameLeaf(page, page')]_vars

\* An insert failed on a leaf that held pairs and had both links set.
C4_Witness ==
    /\ last.op = "insert" /\ last.res = "None"
    /\ last.pre.n >= 2
    /\ last.pre.prev # None /\ last.pre.next # None
    /\ last.arg.slot < last.pre.n

\* C5: an insert of a pair within the maximum pair size is never fatal; it
\* returns the failure result exactly when the body has no room for the
\* record and its slot, and then the slot count stays as it was.
C5_CapacityBoundary ==
    [][(/\ last'.op = "insert"
        /\ Len(to_bytes(last'.arg.key, last'.arg.value)) <= max_pair_size(page))
       =>
       /\ last'.res \in {"Some", "None"}
       /\ last'.res = "None" <=>
             Slotted_free_space(page.body)
                 < PointerSize + Len(to_bytes(last'.arg.key, last'.arg.value))
       /\ last'.res = "None" => num_pairs(page') = num_pairs(page)]_vars

\* Inserts filled the leaf and the next one was refused.
C5_Witness ==
    /\ ValidInserts
    /\ last.op = "insert" /\ last.res = "None"
    /\ last.pre.n = 3 /\ num_pairs(page) = 3
    /\ Len(to_bytes(last.arg.key, last.arg.value)) <= max_pair_size(page)

\* C6: right after initialize the leaf has no pairs and no links, whatever
\* the buffer held before.
C6_Initialization ==
    last.op = "initialize" =>
        /\ num_pairs(page) = 0
        /\ prev_page_id(page) = None
        /\ next_page_id(page) = None

\* initialize was called on a full leaf with both links set.
C6_Witness ==
    /\ last.op = "initialize"
    /\ last.pre.n = 3
    /\ last.pre.prev # None /\ last.pre.next # None

\* C7: a link set to None reads back None, a link set to Some(x), x not the
\* sentinel, reads back Some(x), for prev and for next; no getter returns
\* Some(sentinel).
C7_SentinelRoundTrip ==
    /\ \A x \in {None} \cup {Some(i) : i \in 0..MaxPageId} :
          /\ (last.op = "set_prev_page_id" /\ last.arg.pid = x) =>
                 prev_page_id(page) = x
          /\ (last.op = "st_next_page_id" /\ last.arg.pid = x) =>
                 next_page_id(page) = x
    /\ prev_page_id(page) # Some(INVALID_PAGE_ID)
    /\ next_page_id(page) # Some(INVALID_PAGE_ID)
    /\ last.op \in {"prev_page_id", "next_page_id"} =>
          last.ret.pid # Some(INVALID_PAGE_ID)

\* A link that was set has been cleared.
C7_Witness ==
    /\ last.op = "set_prev_page_id"
    /\ last.arg.pid = None
    /\ last.pre.prev = Some(1)
    /\ next_page_id(page) = Some(0)

\* C8: an insert of a pair larger than the maximum pair size is fatal,
\* whatever room the body has, and the leaf is as it was when it aborts.
C8_OversizedFatal ==
    [][(/\ last'.op = "insert"
        /\ Len(to_bytes(last'.arg.key, last'.arg.value)) > max_pair_size(page))
       =>
       /\ last'.res = "panic"
       /\ SameLeaf(page, page')]_vars

\* An oversized pair was refused by a leaf with room for it.
C8_Witness ==
    /\ last.op = "insert" /\ last.res = "panic"
    /\ last.pre.n = 1
    /\ Slotted_free_space(page.body)
           >= PointerSize + Len(to_bytes(last.arg.key, last.arg.value))

\* C9 as stated: inserts made at the index search_slot_id carries, that of
\* Ok(i) as well as that of Err(i), never leave two slots with equal keys.
C9_NoDuplicateKeys_AnySearchIndex ==
    (Initialized /\ usage \in {"insertion_point", "search_index"}) =>
        DistinctKeys(page)

\* C9 amended: inserts made at the insertion point Err(i) never leave two
\* slots with equal keys.
C9_NoDuplicateKeys == ValidInserts => DistinctKeys(page)

\* The caller found a key present in a leaf of three pairs, all of them
\* inserted at insertion points.
C9_Witness ==
    /\ ValidInserts
    /\ num_pairs(page) = 3
    /\ last.op = "search_slot_id" /\ last.res = "Ok" /\ last.ret.idx = 2

\* C10: pair_at of a slot at or past num_pairs() is fatal; pair_at of a
\* slot below it returns the pair that was inserted there.
C10_PairAtRange ==
    (Initialized /\ last.op = "pair_at") =>
        IF last.arg.slot >= num_pairs(page)
        THEN last.res = "panic"
        ELSE /\ last.res = "pair"
             /\ last.ret.key = stored[last.arg.slot + 1].key
             /\ last.ret.value = stored[last.arg.slot + 1].value

\* The last of three pairs was read.
C10_Witness ==
    /\ last.op = "pair_at" /\ last.res = "pair"
    /\ last.arg.slot = 2
    /\ Len(stored) = 3

\* C11 as stated: construction is fatal exactly when the buffer is shorter
\* than the header.
C11_NewFailsOnlyWhenShort ==
    last.op = "new" => (last.res = "panic" <=> buflen < HeaderSize)

\* C11 amended: construction is fatal, and yields no view, exactly when the
\* buffer is shorter than the header or not aligned for it; otherwise the
\* links are the first HeaderSize bytes and the body is the rest.
C11_Construction ==
    [][last'.op = "new" =>
         IF buflen < HeaderSize \/ bufaddr % HeaderAlign # 0
         THEN /\ last'.res = "panic"
              /\ phase' = phase
         ELSE /\ last'.res = "unit"
              /\ phase' # "buffer"
              /\ page'.prev = page.prev
              /\ page'.next = page.next
              /\ page'.body.slots = page.body.slots
              /\ Slotted_capacity(page'.body)
                     = buflen - HeaderSize - SlottedHeaderSize]_vars

\* A view was made of a buffer that holds the header and nothing else.
C11_Witness ==
    /\ last.op = "new" /\ last.res = "unit"
    /\ buflen = HeaderSize
    /\ phase = "raw"

\* C12: a successful insert(s, key, value), 0 <= s <= num_pairs(), adds one
\* pair: the new pair is at s, the pairs below s stay, each pair that was at
\* i >= s is at i + 1, and both links stay.
C12_InsertEffect ==
    [][(last'.op = "insert" /\ last'.res = "Some") =>
         LET s == last'.arg.slot
         IN  /\ num_pairs(page') = num_pairs(page) + 1
             /\ pair_at(page', s) = PairOf(last'.arg.key, last'.arg.value)
             /\ \A i \in Slots(page) :
                   IF i < s
                   THEN pair_at(page', i) = pair_at(page, i)
                   ELSE pair_at(page', i + 1) = pair_at(page, i)
             /\ prev_page_id(page') = prev_page_id(page)
             /\ next_page_id(page') = next_page_id(page)]_vars

\* A pair went in between two others that were not in key order, with both
\* links set.
C12_Witness ==
    /\ usage = "any_slot"
    /\ last.op = "insert" /\ last.res = "Some"
    /\ last.arg.slot = 1 /\ last.pre.n = 2
    /\ LexLess(KeyAt(page, 2), KeyAt(page, 0))
    /\ last.pre.prev # None /\ last.pre.next # None

\* C13: a view made anew of the buffer of a leaf, without initialize, reports
\* the links, the slot count, every pair and every search result that the
\* view before it reported.
C13_ViewHasNoState ==
    [][(phase = "leaf" /\ last'.op = "new") =>
         /\ last'.res = "unit"
         /\ SameLeaf(page, page')
         /\ \A key \in Keys :
               search_slot_id(page', key) = search_slot_id(page, key)]_vars

\* A second view was made of a full leaf with both links set.
C13_Witness ==
    /\ phase = "leaf"
    /\ last.op = "new" /\ last.res = "unit"
    /\ num_pairs(page) = 3
    /\ prev_page_id(page) # None /\ next_page_id(page) # None

\* C14: set_prev_page_id changes the prev link alone and st_next_page_id the
\* next link alone: the other link, the slot count and every pair stay, and
\* the setter takes any optional page identifier and returns.
C14_SetterFrame ==
    [][/\ last'.op = "set_prev_page_id" =>
             /\ last'.res = "unit"
             /\ last'.arg.pid \in OptPageIds
             /\ page'.prev = PageId_from(last'.arg.pid)
             /\ SameLeaf([page EXCEPT !.prev = page'.prev], page')
       /\ last'.op = "st_next_page_id" =>
             /\ last'.res = "unit"
             /\ last'.arg.pid \in OptPageIds
             /\ page'.next = PageId_from(last'.arg.pid)
             /\ SameLeaf([page EXCEPT !.next = page'.next], page')]_vars

\* The next link of a leaf with pairs was set while the prev link named
\* another page.
C14_Witness ==
    /\ last.op = "st_next_page_id"
    /\ last.arg.pid = Some(1) /\ last.pre.next = None
    /\ prev_page_id(page) = Some(0)
    /\ num_pairs(page) = 2

ReadOps ==
    {"prev_page_id", "next_page_id", "num_pairs", "search_slot_id", "pair_at"}

\* What a read operation returns, called on its own on the leaf.
ReadAlone(leaf, call) ==
    CASE call.op = "prev_page_id" ->
            [res |-> "opt", ret |-> [NoRet EXCEPT !.pid = prev_page_id(leaf)]]
      [] call.op = "next_page_id" ->
            [res |-> "opt", ret |-> [NoRet EXCEPT !.pid = next_page_id(leaf)]]
      [] call.op = "num_pairs" ->
            [res |-> "count", ret |-> [NoRet EXCEPT !.idx = num_pairs(leaf)]]
      [] call.op = "search_slot_id" ->
            LET r == search_slot_id(leaf, call.arg.key)
            IN  [res |-> r.tag, ret |-> [NoRet EXCEPT !.idx = r.idx]]
      [] call.op = "pair_at" ->
            LET r == pair_at(leaf, call.arg.slot)
            IN  [res |-> r.tag,
                 ret |-> IF r.tag = "pair"
                         THEN [NoRet EXCEPT !.key = r.key, !.value = r.value]
                         ELSE NoRet]

====
